---- MODULE Spec2Model ----
(***************************************************************************)
(* Model of src/llm_github_copilot.py: the GitHub Copilot credential       *)
(* manager (GitHubCopilotAuthenticator) and the completion generator       *)
(* (GitHubCopilot.execute).                                                *)
(*                                                                         *)
(* Spec: one process runs one top-level call at a time (op), step by step  *)
(* (pc).  Every HTTP exchange is one action whose answer is chosen by the  *)
(* server (\E over the outcomes the code distinguishes).  The two          *)
(* credential files persist between calls; everything else is local to a   *)
(* call.                                                                   *)
(* FairSpec: Spec with the steps of a call weakly fair (a call that can    *)
(* take a step takes it: the code is sequential and every HTTP exchange    *)
(* ends, httpx applying its default timeout).                              *)
(* DecodeSpec: the read loop of execute() over a streaming response whose  *)
(* lines are given in advance.                                             *)
(* RaceSpec: several processes run get_api_key() on one API-key file, the  *)
(* file as a sequence of bytes.                                            *)
(***************************************************************************)
EXTENDS Integers, Sequences, FiniteSets, TLC

\* ------------------------------------------------------------------ bounds
\* Wall-clock values 0..MaxTime (seconds since the epoch, scaled down).
MaxTime == 1
\* At most MaxLines lines of one streaming response keep the read loop going.
MaxLines == 2
\* A conversation holds at most MaxPrior prior responses.
MaxPrior == 2
\* A streaming response given in advance has at most MaxResponse lines.
MaxResponse == 3
\* Processes racing on the API-key file.
MaxProcs == 2

\* ------------------------------------------------------- program constants
\* for attempt in range(3) in get_access_token
LoginAttempts == 3
\* max_attempts = 12 in _poll_for_access_token
max_attempts == 12
\* time.sleep(5) in _poll_for_access_token
PollInterval == 5
\* max_retries = 3 in _refresh_api_key
max_retries == 3
\* time.sleep(1) in _refresh_api_key
RetryDelay == 1

\* ------------------------------------------------------------------ values
\* Access tokens and access-token file contents are sequences of characters.
TokA == <<"a">>
TokB == <<"b">>
ServerAccessTokens == {TokA, TokB}
AccessContents == {<<>>, <<" ">>, TokA, <<"a", " ">>, <<" ", "b">>}
NoAccessFile == [exists |-> FALSE, data |-> <<>>]
AccessFiles == {NoAccessFile} \cup [exists : {TRUE}, data : AccessContents]

\* API-key tokens; NoToken is what dict.get("token") gives when the field is
\* missing or null (None).
NoToken == "None"
KeyTokens == {"keyA", "keyB"}
Times == 0..MaxTime

\* The API-key file: absent, empty (truncated), not JSON, or a JSON object.
\* hasExp = FALSE: the object has no expires_at field (exp is then 0).
NonJsonFile(k) == [kind |-> k, token |-> NoToken, hasExp |-> FALSE, exp |-> 0]
JsonFile(tok, he, e) == [kind |-> "json", token |-> tok, hasExp |-> he, exp |-> e]
KeyRecords ==
    {JsonFile(tok, TRUE, e) : tok \in KeyTokens \cup {NoToken}, e \in Times}
    \cup {JsonFile(tok, FALSE, 0) : tok \in KeyTokens \cup {NoToken}}
ApiKeyFiles == {NonJsonFile("absent"), NonJsonFile("empty"), NonJsonFile("garbage")} \cup KeyRecords

\* Outcomes of one HTTP exchange, as the code tells them apart.
DeviceOutcomes == {"ok", "missing_fields", "status_error", "transport_error"}
PollOutcomes ==
    {"access_token", "authorization_pending", "other_error", "malformed",
     "status_error", "transport_error"}
KeyOutcomes == {"token", "no_token", "status_error", "transport_error"}
WriteOutcomes == {"ok", "open_fails", "write_fails"}

Ops == {"get_access_token", "get_api_key", "refresh_api_key", "execute"}

\* Fragments execute() can yield.
ErrKey == "Error getting GitHub Copilot API key"
ErrRequest == "Error with GitHub Copilot request"
ErrHttp == "HTTP error"
DiagBody == "diagnostic body"

\* Bounded sequences over S.
BSeq(S, n) == UNION {[1..k -> S] : k \in 0..n}

\* Conversations: None, or an object with its prior responses; a response
\* holds its prompt and its text.
SystemPreamble == "You are GitHub Copilot, an AI programming assistant."
NewPrompt == "new prompt"
Responses == {[prompt |-> "p1", text |-> "t1"], [prompt |-> "p2", text |-> "t2"]}
NoConversation == [given |-> FALSE, responses |-> <<>>]
Conversations ==
    {NoConversation} \cup {[given |-> TRUE, responses |-> r] : r \in BSeq(Responses, MaxPrior)}
Message(role, content) == [role |-> role, content |-> content]

\* RaceSpec.  The API-key file as bytes: json.dump writes "{", the token,
\* the expires_at digit and "}".
Procs == 1..MaxProcs
RaceTokens == {<<"k">>, <<"k", "e", "y">>}
RaceKeys == [token : RaceTokens, exp : Times]
Digit(e) == <<"0", "1", "2", "3", "4", "5", "6", "7", "8", "9">>[e + 1]
Encode(k) == <<"{">> \o k.token \o <<Digit(k.exp)>> \o <<"}">>
\* json.load: the record the bytes encode, or a JSONDecodeError.
Parses(bytes) == \E k \in RaceKeys : Encode(k) = bytes
Parsed(bytes) == CHOOSE k \in RaceKeys : Encode(k) = bytes
NoDisk == [exists |-> FALSE, data |-> <<>>]
RaceDisks == {NoDisk} \cup {[exists |-> TRUE, data |-> Encode(k)] : k \in RaceKeys}
NoRaceKey == [token |-> <<>>, exp |-> 0]
IdleProc == [pc |-> "start", key |-> NoRaceKey, seen |-> <<>>, out |-> "none"]

VARIABLES
    accessFile,     \* the access-token file
    apiKeyFile,     \* the API-key file
    now,            \* datetime.now().timestamp()
    op,             \* the top-level call in progress, "none" before the first
    pc,             \* where the call is
    result,         \* "none", "ok" (returned / generator ended), "raised"
    accessToken,    \* access_token of get_access_token and _refresh_api_key
    keyInfo,        \* the dict _refresh_api_key returned
    apiKey,         \* the value get_api_key returned
    servedFromCache,\* get_api_key returned at line 101
    loggedIn,       \* get_access_token returned a token it got from a login run
    loginAttempt,   \* attempt of the loop at line 78
    pollAttempt,    \* attempt of the loop at line 144
    keyAttempt,     \* attempt of the loop at line 196
    devicePosts,    \* device-code POSTs of the get_access_token call
    pollPosts,      \* token-poll POSTs of the get_access_token call, counted
                    \* when the program's call is get_api_key
    keyGets,        \* key-exchange GETs of the _refresh_api_key call
    runPosts,       \* token-poll POSTs of the current login run
    runSlept,       \* seconds slept by the current login run
    runAllPending,  \* every answer of the current run was authorization_pending
    runTimedOut,    \* the current run ended at line 170
    lastPoll,       \* outcome of the last token poll of the current run
    lastPollToken,  \* the access_token of that answer, when it had one
    keySlept,       \* seconds slept by _refresh_api_key
    keySleeps,      \* number of sleeps of _refresh_api_key
    saveOutcome,    \* what the write of the access-token file did
    accessAtCall,   \* accessFile when the program called get_access_token
    apiKeyAtCall,   \* apiKeyFile when the program called get_api_key
    prevKeyCall,    \* get_api_key called right after a get_api_key call that
                    \* returned, before the expiry its key declares: how that
                    \* call got the key ("none" otherwise)
    afterSave,      \* get_api_key called right after a get_api_key call that
                    \* wrote the API-key file (lines 109-110), and has not
                    \* had to start a login
    deviceCode,     \* the device_code the current login run was given
    polledCode,     \* the device_code the last token poll sent
    allHttpFailed,  \* every HTTP exchange of this call failed in transport
    fragments,      \* what execute() yielded so far
    diagStatus,     \* diagnostic call: "none", "ok", "error", "transport_error"
    streamStatus,   \* streaming call: "none", "ok", "error", "transport_error"
    linesRead,      \* lines read from the streaming response
    diagText,       \* diagnostic_response.text
    conversation,   \* the conversation execute() was given
    messages,       \* payload["messages"]
    diagMessages,   \* the messages of the diagnostic POST, once sent
    streamMessages, \* the messages of the streaming POST, once sent
    response,       \* DecodeSpec: the lines of the streaming response
    disk,           \* RaceSpec: the bytes of the API-key file
    procs           \* RaceSpec: the get_api_key() call of each process

files == <<accessFile, apiKeyFile>>
\* The frame of get_access_token (with _login and _poll_for_access_token).
loginVars ==
    <<loginAttempt, pollAttempt, devicePosts, pollPosts, runPosts, runSlept,
      runAllPending, runTimedOut, lastPoll, lastPollToken, saveOutcome,
      deviceCode, polledCode>>
\* The frame of _refresh_api_key.
keyVars == <<accessToken, loggedIn, keyInfo, keyAttempt, keyGets, keySlept, keySleeps>>
\* The frame of get_api_key.
apiVars == <<apiKey, servedFromCache>>
callGhosts == <<accessAtCall, apiKeyAtCall, prevKeyCall, afterSave>>
\* The request execute() builds and sends.
requestVars == <<conversation, messages, diagMessages, streamMessages>>
execVars == <<fragments, diagStatus, streamStatus, linesRead, diagText, requestVars>>
\* What only DecodeSpec and RaceSpec change.
aside == <<response, disk, procs>>
\* What RaceSpec leaves alone.
program ==
    <<accessFile, apiKeyFile, now, op, pc, result, accessToken, keyInfo, apiKey,
      servedFromCache, loggedIn, loginAttempt, pollAttempt, keyAttempt,
      devicePosts, pollPosts, keyGets, runPosts, runSlept, runAllPending,
      runTimedOut, lastPoll, lastPollToken, keySlept, keySleeps, saveOutcome,
      accessAtCall, apiKeyAtCall, prevKeyCall, afterSave, deviceCode,
      polledCode, allHttpFailed, fragments, diagStatus, streamStatus,
      linesRead, diagText, conversation, messages, diagMessages,
      streamMessages, response>>
vars ==
    <<accessFile, apiKeyFile, now, op, pc, result, accessToken, keyInfo, apiKey,
      servedFromCache, loggedIn, loginAttempt, pollAttempt, keyAttempt,
      devicePosts, pollPosts, keyGets, runPosts, runSlept, runAllPending,
      runTimedOut, lastPoll, lastPollToken, keySlept, keySleeps, saveOutcome,
      accessAtCall, apiKeyAtCall, prevKeyCall, afterSave, deviceCode,
      polledCode, allHttpFailed, fragments, diagStatus, streamStatus,
      linesRead, diagText, conversation, messages, diagMessages,
      streamMessages, response, disk, procs>>

NoKeyInfo == [hasToken |-> FALSE, token |-> NoToken, hasExp |-> FALSE, exp |-> 0]

\* ----------------------------------------------------------- pure helpers
IsSpace(c) == c = " "

RECURSIVE LStrip(_)
LStrip(s) ==
    IF s = <<>> THEN <<>>
    ELSE IF IsSpace(Head(s)) THEN LStrip(Tail(s)) ELSE s

RECURSIVE RStrip(_)
RStrip(s) ==
    IF s = <<>> THEN <<>>
    ELSE IF IsSpace(s[Len(s)]) THEN RStrip(SubSeq(s, 1, Len(s) - 1)) ELSE s

\* str.strip()
Strip(s) == RStrip(LStrip(s))

\* Mutant of CachedAccessToken: the content is compared unstripped, so a
\* token followed by a newline or a blank counts as no token.
CachedAccessTokenUnstripped(f) ==
    IF f.exists /\ Strip(f.data) = f.data THEN f.data ELSE <<>>

\* get_access_token, lines 69-75: the cached token, <<>> when there is none
\* (open() raised IOError, or the stripped content is empty).
CachedAccessToken(f) == IF f.exists THEN Strip(f.data) ELSE <<>>

\* api_key_info.get("expires_at", 0)
ExpiresAtOr0(f) == IF f.hasExp THEN f.exp ELSE 0

\* Mutant of CachedKeyUsable: the comparison of line 100 reversed.
CachedKeyUsableReversed(f, t) == f.kind = "json" /\ ExpiresAtOr0(f) < t

\* Mutant of CachedKeyUsable: a key is still served at its expiry time.
CachedKeyUsableAtExpiry(f, t) == f.kind = "json" /\ ExpiresAtOr0(f) >= t

\* get_api_key, lines 97-105: the record is served from the file.
CachedKeyUsable(f, t) == f.kind = "json" /\ ExpiresAtOr0(f) > t

\* Mutant of CachedToken: the token field is not found.
CachedTokenMissing(f) == NoToken

\* get_api_key, line 101: api_key_info.get("token").
CachedToken(f) == f.token

\* Mutant of PollRaises: raise_for_status() left out, an HTTP error status is
\* read like any other body.
PollRaisesNoStatusCheck(o) == o = "transport_error"

\* _poll_for_access_token, lines 155-166: the exchange raised.
PollRaises(o) == o \in {"status_error", "transport_error"}

\* Mutant of PollLoopRuns: one iteration too many.
PollLoopRunsOffByOne(attempt) == attempt <= max_attempts

\* _poll_for_access_token, line 144: the loop goes on.
PollLoopRuns(attempt) == attempt < max_attempts

\* Mutant of LastLoginAttempt: the last attempt taken to be attempt 3.
LastLoginAttemptOffByOne(attempt) == attempt = LoginAttempts

\* get_access_token, line 89.
LastLoginAttempt(attempt) == attempt = LoginAttempts - 1

\* Mutant of KeyLoopRuns: one iteration too many.
KeyLoopRunsOffByOne(attempt) == attempt <= max_retries

\* _refresh_api_key, line 196.
KeyLoopRuns(attempt) == attempt < max_retries

\* Mutant of SleepsAfterKeyAttempt: the sleep is not guarded.
SleepsAfterEveryKeyAttempt(attempt) == attempt < max_retries

\* _refresh_api_key, line 214.
SleepsAfterKeyAttempt(attempt) == attempt < max_retries - 1

\* Mutant of HasTokenField: any answer that is JSON counts as a key.
HasTokenFieldAnyJson(o) == o \in {"token", "no_token"}

\* _refresh_api_key, line 207: "token" in response_json.
HasTokenField(o) == o = "token"

\* Transport failures keep allHttpFailed; any answer of the server clears it.
HttpFailed(o) == allHttpFailed /\ o = "transport_error"

\* -------------------------------------------------------------------- Init
\* No call has been made.
Idle ==
    /\ now = 0
    /\ op = "none"
    /\ pc = "idle"
    /\ result = "none"
    /\ accessToken = <<>>
    /\ keyInfo = NoKeyInfo
    /\ apiKey = NoToken
    /\ servedFromCache = FALSE
    /\ loggedIn = FALSE
    /\ loginAttempt = 0
    /\ pollAttempt = 0
    /\ keyAttempt = 0
    /\ devicePosts = 0
    /\ pollPosts = 0
    /\ keyGets = 0
    /\ runPosts = 0
    /\ runSlept = 0
    /\ runAllPending = TRUE
    /\ runTimedOut = FALSE
    /\ lastPoll = "none"
    /\ lastPollToken = <<>>
    /\ keySlept = 0
    /\ keySleeps = 0
    /\ saveOutcome = "none"
    /\ accessAtCall = NoAccessFile
    /\ apiKeyAtCall = NonJsonFile("absent")
    /\ prevKeyCall = "none"
    /\ afterSave = FALSE
    /\ deviceCode = 0
    /\ polledCode = 0
    /\ allHttpFailed = TRUE
    /\ fragments = <<>>
    /\ diagStatus = "none"
    /\ streamStatus = "none"
    /\ linesRead = 0
    /\ diagText = ""
    /\ conversation = NoConversation
    /\ messages = <<>>
    /\ diagMessages = <<>>
    /\ streamMessages = <<>>

Init ==
    /\ accessFile \in AccessFiles
    /\ apiKeyFile \in ApiKeyFiles
    /\ Idle
    /\ response = <<>>
    /\ disk = NoDisk
    /\ procs = [p \in Procs |-> IdleProc]

\* ------------------------------------------------------------ control flow
\* A fresh get_access_token frame.
ResetLogin ==
    /\ loginAttempt' = 0
    /\ pollAttempt' = 0
    /\ devicePosts' = 0
    /\ pollPosts' = 0
    /\ runPosts' = 0
    /\ runSlept' = 0
    /\ runAllPending' = TRUE
    /\ runTimedOut' = FALSE
    /\ lastPoll' = "none"
    /\ lastPollToken' = <<>>
    /\ saveOutcome' = "none"
    /\ deviceCode' = 0
    /\ polledCode' = 0

\* A fresh _refresh_api_key frame.
ResetRefresh ==
    /\ accessToken' = <<>>
    /\ loggedIn' = FALSE
    /\ keyInfo' = NoKeyInfo
    /\ keyAttempt' = 0
    /\ keyGets' = 0
    /\ keySlept' = 0
    /\ keySleeps' = 0

\* Time t is before the expiry the key of record f declares.
BeforeDeclaredExpiry(f, t) == f.kind = "json" /\ f.hasExp /\ t < f.exp

\* How the get_api_key call that just ended got its key: from the file, or
\* with how many network calls (a login run makes at least two).
KeyCallSummary ==
    IF op # "get_api_key" \/ pc # "done" \/ result # "ok" THEN "none"
    ELSE IF servedFromCache THEN "cached"
    ELSE IF loggedIn \/ keyGets > 1 THEN "more_calls"
    ELSE IF keyGets = 1 THEN "one_call"
    ELSE "no_call"

\* No request has been built.
NoRequest ==
    /\ conversation' = NoConversation
    /\ messages' = <<>>
    /\ diagMessages' = <<>>
    /\ streamMessages' = <<>>

\* The get_api_key call that just ended wrote the API-key file.
SavedKey == op = "get_api_key" /\ pc = "done" /\ result = "ok" /\ ~servedFromCache

\* A caller starts o at time t.  get_access_token and _refresh_api_key begin
\* by reading the access-token file (lines 70, 192), get_api_key and execute
\* by reading the API-key file (lines 98, 284).  The clock is read only at
\* line 100, the first step of get_api_key, so time passes between calls.
Call(o) ==
    /\ pc \in {"idle", "done"}
    /\ op' = o
    /\ pc' = IF o \in {"get_access_token", "refresh_api_key"} THEN "gat_read" ELSE "gak_read"
    /\ \E t \in now..MaxTime : now' = t
    /\ ResetLogin
    /\ ResetRefresh
    /\ result' = "none"
    /\ apiKey' = NoToken
    /\ servedFromCache' = FALSE
    /\ allHttpFailed' = TRUE
    /\ fragments' = <<>>
    /\ diagStatus' = "none"
    /\ streamStatus' = "none"
    /\ linesRead' = 0
    /\ diagText' = ""
    /\ NoRequest
    /\ accessAtCall' = IF o = "get_access_token" THEN accessFile ELSE NoAccessFile
    /\ apiKeyAtCall' = IF o = "get_api_key" THEN apiKeyFile ELSE NonJsonFile("absent")
    /\ prevKeyCall' = IF o = "get_api_key" /\ BeforeDeclaredExpiry(apiKeyFile, now')
                      THEN KeyCallSummary ELSE "none"
    /\ afterSave' = (o = "get_api_key" /\ SavedKey)
    /\ UNCHANGED <<files, aside>>

CallGetAccessToken == Call("get_access_token")
CallGetApiKey == Call("get_api_key")
CallRefreshApiKey == Call("refresh_api_key")
CallExecute == Call("execute")

\* An exception leaves the authenticator.  get_access_token, _refresh_api_key
\* and get_api_key (line 113) raise to their caller; execute catches it at
\* line 285, yields one error text and returns.
AuthRaises ==
    /\ pc' = "done"
    /\ result' = IF op = "execute" THEN "ok" ELSE "raised"
    /\ fragments' = IF op = "execute" THEN <<ErrKey>> ELSE fragments

\* A login run failed (lines 87-91): the last attempt raises, the others
\* start the next run.
LoginRunFailed ==
    IF LastLoginAttempt(loginAttempt)
    THEN /\ AuthRaises
         /\ UNCHANGED loginAttempt
    ELSE /\ loginAttempt' = loginAttempt + 1
         /\ pc' = "device_code"
         /\ UNCHANGED <<result, fragments>>

\* ------------------------------------------------------- get_access_token
\* Lines 69-77.  A cached token is returned to the caller: the program's
\* caller, or _refresh_api_key at line 192.
GetAccessTokenRead ==
    /\ pc = "gat_read"
    /\ IF CachedAccessToken(accessFile) # <<>>
       THEN /\ accessToken' = CachedAccessToken(accessFile)
            /\ pc' = IF op = "get_access_token" THEN "done" ELSE "key_exchange"
            /\ result' = IF op = "get_access_token" THEN "ok" ELSE result
            /\ UNCHANGED afterSave
       ELSE /\ pc' = "device_code"
            /\ afterSave' = FALSE
            /\ UNCHANGED <<accessToken, result>>
    /\ UNCHANGED <<files, now, op, loggedIn, keyInfo, keyAttempt, keyGets,
                   keySlept, keySleeps, apiVars, loginVars, accessAtCall,
                   apiKeyAtCall, prevKeyCall, allHttpFailed, execVars, aside>>

\* _login line 176, _get_device_code lines 119-135: one POST starts a run.
GetDeviceCode ==
    /\ pc = "device_code"
    /\ \E o \in DeviceOutcomes :
        /\ devicePosts' = devicePosts + 1
        /\ allHttpFailed' = HttpFailed(o)
        /\ runPosts' = 0
        /\ runSlept' = 0
        /\ runAllPending' = TRUE
        /\ runTimedOut' = FALSE
        /\ lastPoll' = "none"
        /\ lastPollToken' = <<>>
        /\ pollAttempt' = 0
        /\ polledCode' = 0
        /\ IF o = "ok"
           THEN /\ pc' = "poll"
                /\ deviceCode' = devicePosts + 1
                /\ UNCHANGED <<loginAttempt, result, fragments>>
           ELSE /\ deviceCode' = 0
                /\ LoginRunFailed
    /\ UNCHANGED <<files, now, op, keyVars, apiVars, pollPosts, saveOutcome,
                   callGhosts, diagStatus, streamStatus, linesRead,
                   diagText, requestVars, aside>>

\* One iteration of the loop at lines 144-168.
PollForAccessToken ==
    /\ pc = "poll"
    /\ PollLoopRuns(pollAttempt)
    /\ \E o \in PollOutcomes, tok \in ServerAccessTokens :
        /\ (o # "access_token" => tok = TokA)
        /\ pollPosts' = IF op = "get_api_key" THEN pollPosts + 1 ELSE pollPosts
        /\ runPosts' = runPosts + 1
        /\ polledCode' = deviceCode
        /\ allHttpFailed' = HttpFailed(o)
        /\ lastPoll' = o
        /\ lastPollToken' = IF o = "access_token" THEN tok ELSE <<>>
        /\ runAllPending' = (runAllPending /\ o = "authorization_pending")
        /\ IF PollRaises(o)
           THEN /\ LoginRunFailed
                /\ UNCHANGED <<accessToken, pollAttempt, runSlept>>
           ELSE IF o = "access_token"
           THEN /\ accessToken' = tok
                /\ pc' = "save_access"
                /\ UNCHANGED <<loginAttempt, pollAttempt, runSlept, result, fragments>>
           ELSE /\ pollAttempt' = pollAttempt + 1
                /\ runSlept' = runSlept + PollInterval
                /\ UNCHANGED <<accessToken, loginAttempt, pc, result, fragments>>
    /\ UNCHANGED <<files, now, op, loggedIn, keyInfo, keyAttempt, keyGets,
                   keySlept, keySleeps, apiVars, devicePosts, runTimedOut,
                   saveOutcome, deviceCode, callGhosts, diagStatus, streamStatus,
                   linesRead, diagText, requestVars, aside>>

\* Line 170: the loop ended without a token.
PollTimedOut ==
    /\ pc = "poll"
    /\ ~PollLoopRuns(pollAttempt)
    /\ runTimedOut' = TRUE
    /\ LoginRunFailed
    /\ UNCHANGED <<files, now, op, keyVars, apiVars, pollAttempt, devicePosts,
                   pollPosts, runPosts, runSlept, runAllPending, lastPoll,
                   lastPollToken, saveOutcome, deviceCode, polledCode,
                   callGhosts, allHttpFailed, diagStatus, streamStatus,
                   linesRead, diagText, requestVars, aside>>

\* Lines 81-86: the token is saved; an IOError is printed and ignored.
\* open(..., "w") truncates, so a write that fails leaves the file empty.
SavedAccessFile(w, tok) ==
    IF w = "ok" THEN [exists |-> TRUE, data |-> tok]
    ELSE IF w = "write_fails" THEN [exists |-> TRUE, data |-> <<>>]
    ELSE accessFile

\* Lines 81-86, then the token is returned (line 86) to the caller: the
\* program's caller, or _refresh_api_key at line 192, where the frame of
\* get_access_token is gone.
SaveAccessToken ==
    /\ pc = "save_access"
    /\ \E w \in WriteOutcomes :
        /\ accessFile' = SavedAccessFile(w, accessToken)
        /\ IF op = "get_access_token"
           THEN /\ saveOutcome' = w
                /\ pc' = "done"
                /\ result' = "ok"
                /\ UNCHANGED <<loginAttempt, pollAttempt, devicePosts, pollPosts,
                               runPosts, runSlept, runAllPending, runTimedOut,
                               lastPoll, lastPollToken, deviceCode, polledCode>>
           ELSE /\ ResetLogin
                /\ pc' = "key_exchange"
                /\ UNCHANGED result
    /\ loggedIn' = TRUE
    /\ UNCHANGED <<apiKeyFile, now, op, accessToken, keyInfo, keyAttempt, keyGets,
                   keySlept, keySleeps, apiVars, callGhosts, allHttpFailed,
                   execVars, aside>>

\* -------------------------------------------------------- _refresh_api_key
\* One iteration of the loop at lines 196-215.  A response with a token field
\* is returned (line 208) to the caller: the program's caller, or get_api_key
\* at line 108.
RefreshApiKey ==
    /\ pc = "key_exchange"
    /\ KeyLoopRuns(keyAttempt)
    /\ \E o \in KeyOutcomes, tok \in KeyTokens \cup {NoToken}, he \in BOOLEAN, e \in Times :
        /\ (he = FALSE => e = 0)
        /\ (o # "token" => tok = NoToken /\ he = FALSE)
        /\ keyGets' = keyGets + 1
        /\ allHttpFailed' = HttpFailed(o)
        /\ IF HasTokenField(o)
           THEN /\ keyInfo' = [hasToken |-> o = "token", token |-> tok, hasExp |-> he, exp |-> e]
                /\ pc' = IF op = "refresh_api_key" THEN "done" ELSE "save_key"
                /\ result' = IF op = "refresh_api_key" THEN "ok" ELSE result
                /\ UNCHANGED <<keyAttempt, keySlept, keySleeps>>
           ELSE /\ keyAttempt' = keyAttempt + 1
                /\ keySlept' = IF SleepsAfterKeyAttempt(keyAttempt)
                               THEN keySlept + RetryDelay ELSE keySlept
                /\ keySleeps' = IF SleepsAfterKeyAttempt(keyAttempt)
                                THEN keySleeps + 1 ELSE keySleeps
                /\ UNCHANGED <<keyInfo, pc, result>>
    /\ UNCHANGED <<files, now, op, accessToken, loggedIn, apiVars, loginVars,
                   callGhosts, execVars, aside>>

\* Line 217.
RefreshExhausted ==
    /\ pc = "key_exchange"
    /\ ~KeyLoopRuns(keyAttempt)
    /\ AuthRaises
    /\ UNCHANGED <<files, now, op, keyVars, apiVars, loginVars, callGhosts,
                   allHttpFailed, diagStatus, streamStatus, linesRead,
                   diagText, requestVars, aside>>

\* ------------------------------------------------------------- get_api_key
\* get_api_key returns to its caller: the program's caller, or execute at
\* line 284.
ApiKeyReturns ==
    /\ pc' = IF op = "get_api_key" THEN "done" ELSE "exec_prepare"
    /\ result' = IF op = "get_api_key" THEN "ok" ELSE result

\* Lines 97-105.
GetApiKeyRead ==
    /\ pc = "gak_read"
    /\ IF CachedKeyUsable(apiKeyFile, now)
       THEN /\ apiKey' = CachedToken(apiKeyFile)
            /\ servedFromCache' = TRUE
            /\ ApiKeyReturns
       ELSE /\ pc' = "gat_read"
            /\ UNCHANGED <<apiKey, servedFromCache, result>>
    /\ UNCHANGED <<files, now, op, keyVars, loginVars, callGhosts, allHttpFailed,
                   execVars, aside>>

\* Lines 109-113: json.dump of the dict the server sent, then its token.
\* A failing open() or write raises, wrapped at line 113.
SaveApiKey ==
    /\ pc = "save_key"
    /\ \E w \in WriteOutcomes :
        IF w = "ok"
        THEN /\ apiKeyFile' = JsonFile(keyInfo.token, keyInfo.hasExp, keyInfo.exp)
             /\ apiKey' = keyInfo.token
             /\ ApiKeyReturns
             /\ UNCHANGED fragments
        ELSE /\ apiKeyFile' = IF w = "write_fails" THEN NonJsonFile("empty") ELSE apiKeyFile
             /\ AuthRaises
             /\ UNCHANGED apiKey
    /\ UNCHANGED <<accessFile, now, op, keyVars, servedFromCache, loginVars,
                   callGhosts, allHttpFailed, diagStatus, streamStatus, linesRead,
                   diagText, requestVars, aside>>

\* ----------------------------------------------------------------- execute
\* One line of a streaming response: whether it starts with "data: ", the
\* text after the prefix (the whole line when there is none), what
\* json.loads makes of that text, and the fields the code looks at.
Line(p, t, j, ch, d, c) ==
    [prefix |-> p, text |-> t, parse |-> j, choices |-> ch, delta |-> d, content |-> c]
JsonLine(ch, d, c) == Line(TRUE, "{...}", "object", ch, d, c)
StreamLines ==
    { Line(FALSE, "", "error", "missing", "missing", ""),
      Line(TRUE, "[DONE]", "error", "missing", "missing", ""),
      JsonLine("one", "object", "Hi"),
      JsonLine("one", "object", " there"),
      JsonLine("missing", "missing", ""),
      JsonLine("empty", "missing", ""),
      JsonLine("one", "missing", ""),
      JsonLine("one", "object", ""),
      JsonLine("one", "null", ""),
      Line(TRUE, "5", "number", "missing", "missing", ""),
      Line(TRUE, "not-json", "error", "missing", "missing", ""),
      Line(FALSE, "plain text", "error", "missing", "missing", "") }

\* Mutant of DecodeLine: the payload [DONE] is not looked for (lines 424-425
\* left out), so it is unparsable text like any other.
DecodeLineWithoutDone(line) ==
    IF ~line.prefix /\ line.text = "" THEN [act |-> "skip", frag |-> ""]
    ELSE IF ~line.prefix THEN [act |-> "yield", frag |-> line.text]
    ELSE IF line.parse = "error" THEN [act |-> "yield", frag |-> line.text]
    ELSE IF line.parse = "number" THEN [act |-> "raise", frag |-> ""]
    ELSE IF line.choices # "one" THEN [act |-> "skip", frag |-> ""]
    ELSE IF line.delta = "null" THEN [act |-> "raise", frag |-> ""]
    ELSE IF line.delta = "missing" \/ line.content = "" THEN [act |-> "skip", frag |-> ""]
    ELSE [act |-> "yield", frag |-> line.content]

\* Mutant of DecodeLine: no handler for JSONDecodeError (lines 437-439 left
\* out), so an unparsable payload raises out of the loop.
DecodeLineWithoutRawFallback(line) ==
    IF ~line.prefix /\ line.text = "" THEN [act |-> "skip", frag |-> ""]
    ELSE IF ~line.prefix THEN [act |-> "yield", frag |-> line.text]
    ELSE IF line.text = "[DONE]" THEN [act |-> "break", frag |-> ""]
    ELSE IF line.parse = "error" THEN [act |-> "raise", frag |-> ""]
    ELSE IF line.parse = "number" THEN [act |-> "raise", frag |-> ""]
    ELSE IF line.choices # "one" THEN [act |-> "skip", frag |-> ""]
    ELSE IF line.delta = "null" THEN [act |-> "raise", frag |-> ""]
    ELSE IF line.delta = "missing" \/ line.content = "" THEN [act |-> "skip", frag |-> ""]
    ELSE [act |-> "yield", frag |-> line.content]

\* Lines 414-442: what one line does.  "skip": nothing is yielded; "yield":
\* frag is yielded; "break": the loop ends; "raise": an exception that is not
\* a JSONDecodeError leaves the loop ("choices" in 5 is a TypeError,
\* None.get an AttributeError).
DecodeLine(line) ==
    IF ~line.prefix /\ line.text = "" THEN [act |-> "skip", frag |-> ""]
    ELSE IF ~line.prefix THEN [act |-> "yield", frag |-> line.text]
    ELSE IF line.text = "[DONE]" THEN [act |-> "break", frag |-> ""]
    ELSE IF line.parse = "error" THEN [act |-> "yield", frag |-> line.text]
    ELSE IF line.parse = "number" THEN [act |-> "raise", frag |-> ""]
    ELSE IF line.choices # "one" THEN [act |-> "skip", frag |-> ""]
    ELSE IF line.delta = "null" THEN [act |-> "raise", frag |-> ""]
    ELSE IF line.delta = "missing" \/ line.content = "" THEN [act |-> "skip", frag |-> ""]
    ELSE [act |-> "yield", frag |-> line.content]

\* Lines 311-321: each prior response gives a user and an assistant message.
RECURSIVE Replay(_)
Replay(rs) ==
    IF rs = <<>> THEN <<>>
    ELSE <<Message("user", Head(rs).prompt), Message("assistant", Head(rs).text)>>
         \o Replay(Tail(rs))

\* Mutant of HasSystem: replayed messages are taken to hold a system message.
HasSystemWhenReplayed(msgs) == msgs # <<>>

\* Line 326: any(msg.get("role") == "system" for msg in messages).
HasSystem(msgs) == \E i \in 1..Len(msgs) : msgs[i].role = "system"

\* Lines 309-347: the messages of the request.
BuildMessages(conv, prompt) ==
    LET replayed == IF conv.given /\ conv.responses # <<>>
                    THEN Replay(conv.responses) ELSE <<>>
    IN  IF replayed # <<>>
        THEN (IF ~HasSystem(replayed)
              THEN <<Message("system", SystemPreamble)>> \o replayed
              ELSE replayed) \o <<Message("user", prompt)>>
        ELSE <<Message("system", SystemPreamble), Message("user", prompt)>>

\* Lines 289-374.  api_key[:4] at line 304 is a TypeError when get_api_key
\* returned None; nothing catches it.  Otherwise the messages are built from
\* the conversation.  The frames of the authenticator are gone.
ExecPrepare ==
    /\ pc = "exec_prepare"
    /\ IF apiKey = NoToken
       THEN /\ pc' = "done"
            /\ result' = "raised"
            /\ UNCHANGED <<servedFromCache, requestVars>>
       ELSE /\ pc' = "diagnostic"
            /\ servedFromCache' = FALSE
            /\ \E conv \in Conversations :
                /\ conversation' = conv
                /\ messages' = BuildMessages(conv, NewPrompt)
            /\ UNCHANGED <<result, diagMessages, streamMessages>>
    /\ ResetLogin
    /\ ResetRefresh
    /\ UNCHANGED <<files, now, op, apiKey, callGhosts, allHttpFailed, fragments,
                   diagStatus, streamStatus, linesRead, diagText, aside>>

\* The text of a diagnostic response.
DiagErrorBody == "diagnostic error body"
DiagTexts(o) == IF o = "ok" THEN {"", DiagBody} ELSE {"", DiagErrorBody}

\* Mutant of DiagnosticEnds: only a response of a success status ends the
\* generator.
DiagnosticEndsOnSuccessOnly(o, text) == o = "ok" /\ text # ""

\* Mutant of DiagnosticEnds: the diagnostic text is never yielded.
DiagnosticNeverEnds(o, text) == FALSE

\* Lines 389-393: the response has a text, which is yielded before the return.
DiagnosticEnds(o, text) == o # "transport_error" /\ text # ""

\* Lines 377-399: the diagnostic POST.  No raise_for_status: a response of
\* any status with a non-empty text is yielded and ends the generator; an
\* empty text or an exception goes on to the streaming request.
ExecDiagnostic ==
    /\ pc = "diagnostic"
    /\ \E o \in {"ok", "error", "transport_error"} :
        /\ diagStatus' = o
        /\ allHttpFailed' = HttpFailed(o)
        /\ diagMessages' = messages
        /\ \E text \in DiagTexts(o) :
            /\ o = "transport_error" => text = ""
            /\ diagText' = text
            /\ IF DiagnosticEnds(o, text)
               THEN /\ fragments' = Append(fragments, text)
                    /\ pc' = "done"
                    /\ result' = "ok"
               ELSE /\ pc' = "stream_open"
                    /\ UNCHANGED <<fragments, result>>
    /\ UNCHANGED <<files, now, op, keyVars, apiVars, loginVars, callGhosts,
                   streamStatus, linesRead, conversation, messages,
                   streamMessages, aside>>

\* Mutant of StreamRaises: no handler, the exception leaves the generator.
StreamRaisesUncaught ==
    /\ pc' = "done"
    /\ result' = "raised"
    /\ UNCHANGED fragments

\* Lines 457-461: the handler of the streaming request.
StreamRaises ==
    /\ fragments' = Append(fragments, ErrRequest)
    /\ pc' = "done"
    /\ result' = "ok"

\* Lines 403-410: the streaming POST is opened.  No raise_for_status: a
\* response of any status is read line by line.
ExecStreamOpen ==
    /\ pc = "stream_open"
    /\ \E o \in {"ok", "error", "transport_error"} :
        /\ streamStatus' = o
        /\ allHttpFailed' = HttpFailed(o)
        /\ streamMessages' = messages
        /\ IF o = "transport_error"
           THEN StreamRaises
           ELSE /\ pc' = "stream_read"
                /\ UNCHANGED <<fragments, result>>
    /\ UNCHANGED <<files, now, op, keyVars, apiVars, loginVars, callGhosts,
                   diagStatus, linesRead, diagText, conversation, messages,
                   diagMessages, aside>>

\* Lines 414-442: the body of the loop for one line.
ReadLine(line) ==
    LET d == DecodeLine(line) IN
    /\ linesRead' = linesRead + 1
    /\ IF d.act = "yield"
       THEN /\ fragments' = Append(fragments, d.frag)
            /\ UNCHANGED <<pc, result>>
       ELSE IF d.act = "break"
       THEN /\ pc' = "done"
            /\ result' = "ok"
            /\ UNCHANGED fragments
       ELSE IF d.act = "raise"
       THEN StreamRaises
       ELSE UNCHANGED <<pc, result, fragments>>

\* Line 413: iter_lines() is exhausted, the generator ends.
StreamExhausted ==
    /\ pc' = "done"
    /\ result' = "ok"
    /\ UNCHANGED <<fragments, linesRead>>

\* Lines 413-442: one line of the response, chosen by the server.  The
\* request is not looked at again once the response is being read.
ExecStreamLine ==
    /\ pc = "stream_read"
    /\ \E line \in StreamLines :
        /\ (DecodeLine(line).act \in {"yield", "skip"} => linesRead < MaxLines)
        /\ ReadLine(line)
    /\ NoRequest
    /\ UNCHANGED <<files, now, op, keyVars, apiVars, loginVars, callGhosts,
                   allHttpFailed, diagStatus, streamStatus, diagText, aside>>

\* Line 413: the response has no more lines.
ExecStreamEnds ==
    /\ pc = "stream_read"
    /\ StreamExhausted
    /\ NoRequest
    /\ UNCHANGED <<files, now, op, keyVars, apiVars, loginVars, callGhosts,
                   allHttpFailed, diagStatus, streamStatus, diagText, aside>>

\* Line 413: iter_lines() raises (the connection breaks while reading).
ExecStreamBreaks ==
    /\ pc = "stream_read"
    /\ StreamRaises
    /\ NoRequest
    /\ UNCHANGED <<files, now, op, keyVars, apiVars, loginVars, callGhosts,
                   allHttpFailed, diagStatus, streamStatus, linesRead, diagText,
                   aside>>

\* -------------------------------------------------------------------- Next
Next ==
    \/ CallGetAccessToken
    \/ CallGetApiKey
    \/ CallRefreshApiKey
    \/ CallExecute
    \/ GetAccessTokenRead
    \/ GetDeviceCode
    \/ PollForAccessToken
    \/ PollTimedOut
    \/ SaveAccessToken
    \/ RefreshApiKey
    \/ RefreshExhausted
    \/ GetApiKeyRead
    \/ SaveApiKey
    \/ ExecPrepare
    \/ ExecDiagnostic
    \/ ExecStreamOpen
    \/ ExecStreamLine
    \/ ExecStreamEnds
    \/ ExecStreamBreaks

Spec == Init /\ [][Next]_vars

\* ---------------------------------------------------------------- KeySpec
\* One get_api_key() call at any time, from one state of the two files for
\* each case the code tells apart: the access-token file absent, blank, or
\* holding a token; the API-key file absent, not JSON, or a record with or
\* without expires_at and token.  A call in progress goes on: the code is
\* sequential and every HTTP exchange ends (httpx.Client() applies its
\* default timeout).
KeyAccessFiles ==
    {NoAccessFile, [exists |-> TRUE, data |-> <<" ">>], [exists |-> TRUE, data |-> <<"a", " ">>]}
KeyApiKeyFiles ==
    {NonJsonFile("absent"), NonJsonFile("garbage"), JsonFile("keyA", FALSE, 0),
     JsonFile(NoToken, TRUE, MaxTime)}
    \cup {JsonFile("keyA", TRUE, e) : e \in Times}

KeyInit ==
    /\ accessFile \in KeyAccessFiles
    /\ apiKeyFile \in KeyApiKeyFiles
    /\ Idle
    /\ response = <<>>
    /\ disk = NoDisk
    /\ procs = [p \in Procs |-> IdleProc]

FirstGetApiKey == pc = "idle" /\ CallGetApiKey

KeyStep ==
    \/ GetApiKeyRead
    \/ GetAccessTokenRead
    \/ GetDeviceCode
    \/ PollForAccessToken
    \/ PollTimedOut
    \/ SaveAccessToken
    \/ RefreshApiKey
    \/ RefreshExhausted
    \/ SaveApiKey

KeyNext == FirstGetApiKey \/ KeyStep

KeySpec == KeyInit /\ [][KeyNext]_vars /\ WF_vars(KeyStep)

\* ------------------------------------------------------------- DecodeSpec
\* execute() has opened the streaming response (line 409) with a key served
\* from the file and an empty diagnostic text; the lines of the response are
\* given.
DecodeInit ==
    /\ accessFile = NoAccessFile
    /\ apiKeyFile = JsonFile("keyA", TRUE, MaxTime)
    /\ now = 0
    /\ op = "execute"
    /\ pc = "stream_read"
    /\ result = "none"
    /\ accessToken = <<>>
    /\ keyInfo = NoKeyInfo
    /\ apiKey = "keyA"
    /\ servedFromCache = FALSE
    /\ loggedIn = FALSE
    /\ loginAttempt = 0
    /\ pollAttempt = 0
    /\ keyAttempt = 0
    /\ devicePosts = 0
    /\ pollPosts = 0
    /\ keyGets = 0
    /\ runPosts = 0
    /\ runSlept = 0
    /\ runAllPending = TRUE
    /\ runTimedOut = FALSE
    /\ lastPoll = "none"
    /\ lastPollToken = <<>>
    /\ keySlept = 0
    /\ keySleeps = 0
    /\ saveOutcome = "none"
    /\ accessAtCall = NoAccessFile
    /\ apiKeyAtCall = NonJsonFile("absent")
    /\ prevKeyCall = "none"
    /\ afterSave = FALSE
    /\ deviceCode = 0
    /\ polledCode = 0
    /\ allHttpFailed = FALSE
    /\ fragments = <<>>
    /\ diagStatus = "ok"
    /\ streamStatus = "ok"
    /\ linesRead = 0
    /\ diagText = ""
    /\ conversation = NoConversation
    /\ messages = <<>>
    /\ diagMessages = <<>>
    /\ streamMessages = <<>>
    /\ response \in BSeq(StreamLines, MaxResponse)
    /\ disk = NoDisk
    /\ procs = [p \in Procs |-> IdleProc]

decodeFrame ==
    <<files, now, op, keyVars, apiVars, loginVars, callGhosts, allHttpFailed,
      diagStatus, streamStatus, diagText, requestVars, aside>>

\* Lines 413-442: the next line of the response.
DecodeLineOfResponse ==
    /\ pc = "stream_read"
    /\ linesRead < Len(response)
    /\ ReadLine(response[linesRead + 1])
    /\ UNCHANGED decodeFrame

\* Line 413: every line has been read.
DecodeResponseEnds ==
    /\ pc = "stream_read"
    /\ linesRead = Len(response)
    /\ StreamExhausted
    /\ UNCHANGED decodeFrame

DecodeNext == DecodeLineOfResponse \/ DecodeResponseEnds

DecodeSpec == DecodeInit /\ [][DecodeNext]_vars

\* --------------------------------------------------------------- RaceSpec
\* The access-token file holds a token; each process calls get_api_key()
\* once, at time 0.
RaceInit ==
    /\ accessFile = [exists |-> TRUE, data |-> TokA]
    /\ apiKeyFile = NonJsonFile("absent")
    /\ Idle
    /\ response = <<>>
    /\ disk \in RaceDisks
    /\ procs = [p \in Procs |-> IdleProc]

\* A write at offset 0 of a file opened with "w": the bytes beyond the ones
\* written stay.
Overwrite(old, new) == new \o SubSeq(old, Len(new) + 1, Len(old))

\* Lines 97-105: the file is opened and loaded; its record is returned when
\* it parses and has not expired.
RaceRead(p) ==
    /\ procs[p].pc = "start"
    /\ LET usable == disk.exists /\ Parses(disk.data) /\ Parsed(disk.data).exp > now IN
       procs' = [procs EXCEPT ![p] =
                    [pc |-> IF usable THEN "done" ELSE "refresh",
                     key |-> IF usable THEN Parsed(disk.data) ELSE NoRaceKey,
                     seen |-> IF disk.exists THEN disk.data ELSE <<>>,
                     out |-> IF usable THEN "cached" ELSE "none"]]
    /\ UNCHANGED <<program, disk>>

\* Line 108: _refresh_api_key returns a key, or raises.
RaceRefresh(p) ==
    /\ procs[p].pc = "refresh"
    /\ \/ \E tok \in RaceTokens :
            procs' = [procs EXCEPT ![p].pc = "open",
                                   ![p].key = [token |-> tok, exp |-> MaxTime]]
       \/ procs' = [procs EXCEPT ![p].pc = "done", ![p].out = "raised"]
    /\ UNCHANGED <<program, disk>>

\* Line 109: open(..., "w") creates or truncates the file.
RaceOpenWrite(p) ==
    /\ procs[p].pc = "open"
    /\ disk' = [exists |-> TRUE, data |-> <<>>]
    /\ procs' = [procs EXCEPT ![p].pc = "write"]
    /\ UNCHANGED program

\* Lines 110-111: json.dump and the close write the record at offset 0; its
\* token is returned.
RaceWrite(p) ==
    /\ procs[p].pc = "write"
    /\ disk' = [exists |-> TRUE, data |-> Overwrite(disk.data, Encode(procs[p].key))]
    /\ procs' = [procs EXCEPT ![p].pc = "done", ![p].out = "refreshed"]
    /\ UNCHANGED program

RaceNext ==
    \/ \E p \in Procs : RaceRead(p)
    \/ \E p \in Procs : RaceRefresh(p)
    \/ \E p \in Procs : RaceOpenWrite(p)
    \/ \E p \in Procs : RaceWrite(p)

RaceSpec == RaceInit /\ [][RaceNext]_vars

\* ================================================================== claims
\* The file holds a non-empty token: some character of it is not blank.
HoldsToken(f) == f.exists /\ \E i \in 1..Len(f.data) : f.data[i] # " "

ExecuteEnded == op = "execute" /\ pc = "done"
ErrorFragments == {ErrKey, ErrRequest, ErrHttp}
StreamFragments == {"Hi", " there", "not-json", "plain text"}

\* C1: the token get_api_key() returns belongs to a key whose declared
\* expires_at is later than the time of the return, on the cached path and
\* on the refresh path alike.
C1_ReturnedKeyUnexpired ==
    (op = "get_api_key" /\ pc = "done" /\ result = "ok") =>
        LET k == IF servedFromCache THEN apiKeyFile ELSE keyInfo IN
        /\ apiKey = k.token
        /\ k.hasExp
        /\ k.exp > now

\* C2: execute() never raises: no exception reaches the caller of the
\* generator, whatever the credential files and the responses are.
C2_ExecuteNeverRaises == ~(op = "execute" /\ result = "raised")

\* An HTTP exchange was made in the call that ended.
SomeHttpCall == devicePosts > 0 \/ keyGets > 0 \/ diagStatus # "none"

\* C3: when an execute() run made HTTP exchanges and every one of them failed
\* in transport, the generator ended normally with exactly one fragment, an
\* error text: the request error after the diagnostic and the streaming call
\* both failed on a usable cached key, the key error after the device-code or
\* key-exchange calls failed.
C3_TransportFailuresOneError ==
    (ExecuteEnded /\ allHttpFailed /\ SomeHttpCall) =>
        /\ result = "ok"
        /\ \/ /\ diagStatus = "transport_error"
              /\ streamStatus = "transport_error"
              /\ fragments = <<ErrRequest>>
           \/ /\ diagStatus = "none"
              /\ streamStatus = "none"
              /\ devicePosts = 3 \/ keyGets = 3
              /\ fragments = <<ErrKey>>

\* C3 witness: a key served from the file, the diagnostic and the streaming
\* call both failed in transport, one error fragment.
C3_Witness ==
    /\ ExecuteEnded
    /\ allHttpFailed
    /\ SomeHttpCall
    /\ apiKey \in KeyTokens
    /\ diagStatus = "transport_error"
    /\ streamStatus = "transport_error"
    /\ fragments = <<ErrRequest>>

\* C4: the fragments of a finished execute() are the diagnostic body alone,
\* or fragments of the stream only, or one error message alone; an HTTP error
\* status on the diagnostic or the streaming call gives one error message.
C4_ThreeShapes ==
    (ExecuteEnded /\ result = "ok") =>
        /\ \/ fragments = <<DiagBody>>
           \/ \A i \in 1..Len(fragments) : fragments[i] \in StreamFragments
           \/ Len(fragments) = 1 /\ fragments[1] \in ErrorFragments
        /\ (diagStatus = "error" \/ streamStatus = "error") =>
               Len(fragments) = 1 /\ fragments[1] \in ErrorFragments

\* C5: a login run whose every answer is authorization_pending ends at the
\* timeout after exactly 12 POSTs, each followed by a 5-second sleep (60
\* seconds in all): no exit before the 12th, no 13th POST.
C5_AllPendingTimesOutAfter12 ==
    /\ runPosts <= 12
    /\ (pc = "poll" /\ runAllPending) =>
           /\ runPosts = pollAttempt
           /\ runSlept = 5 * runPosts
    /\ (pc = "poll" /\ pollAttempt = 12) =>
           /\ ENABLED PollTimedOut
           /\ ~ENABLED PollForAccessToken
    /\ (pc # "poll" /\ runAllPending /\ runPosts > 0) =>
           /\ runTimedOut
           /\ runPosts = 12
           /\ runSlept = 60
    /\ runTimedOut => runPosts = 12 /\ runSlept <= 60

\* C5 witness: a run of 12 pending answers that timed out.
C5_Witness == runTimedOut /\ runAllPending /\ runPosts = 12 /\ runSlept = 60

\* C6: in every token poll, an answer with access_token ends the polling at
\* once with that token; an answer that is neither that nor
\* authorization_pending keeps polling and uses up one of the 12 attempts; an
\* exchange that raises ends the run as failed, with no sleep and no further
\* POST of that run.
C6_PollStep ==
    (pc = "poll" /\ runPosts' = runPosts + 1) =>
        /\ lastPoll' = "access_token" =>
               /\ pc' = "save_access"
               /\ accessToken' = lastPollToken'
               /\ accessToken' \in ServerAccessTokens
               /\ runSlept' = runSlept
        /\ lastPoll' \in {"authorization_pending", "other_error", "malformed"} =>
               /\ pc' = "poll"
               /\ pollAttempt' = pollAttempt + 1
               /\ pollAttempt' <= 12
               /\ runSlept' = runSlept + 5
               /\ loginAttempt' = loginAttempt
        /\ lastPoll' \in {"status_error", "transport_error"} =>
               /\ runSlept' = runSlept
               /\ \/ pc' = "device_code" /\ loginAttempt' = loginAttempt + 1
                  \/ pc' = "done" /\ loginAttempt = 2
                     /\ (op # "execute" => result' = "raised")
C6_PollOutcomes == [][C6_PollStep]_vars

\* C6 witness: an unexpected answer was the 12th attempt of a run that is
\* still in the polling loop.
C6_Witness == pc = "poll" /\ lastPoll = "other_error" /\ pollAttempt = 12

\* C7 as stated: without a cached token, get_access_token() runs at most 3
\* logins, stops at the first success, has that token in the file when it
\* returns it, and fails exactly when all 3 runs failed, the file untouched.
C7_LoginTokenWritten ==
    (op = "get_access_token" /\ pc = "done" /\ ~HoldsToken(accessAtCall)) =>
        /\ devicePosts <= 3
        /\ result = "ok" =>
               /\ lastPoll = "access_token"
               /\ accessToken = lastPollToken
               /\ accessFile = [exists |-> TRUE, data |-> accessToken]
        /\ result = "raised" =>
               /\ devicePosts = 3
               /\ lastPoll # "access_token"
               /\ accessFile = accessAtCall

\* C7 amended: the same, but the save may fail: the token is returned all the
\* same and the file does not hold it (it is as it was when open failed,
\* empty when the write failed).
C7_LoginTokenSaveAttempted ==
    (op = "get_access_token" /\ pc = "done" /\ ~HoldsToken(accessAtCall)) =>
        /\ devicePosts <= 3
        /\ devicePosts = loginAttempt + 1
        /\ result \in {"ok", "raised"}
        /\ result = "ok" =>
               /\ lastPoll = "access_token"
               /\ accessToken = lastPollToken
               /\ saveOutcome \in WriteOutcomes
               /\ saveOutcome = "ok" =>
                      accessFile = [exists |-> TRUE, data |-> accessToken]
               /\ saveOutcome # "ok" => ~HoldsToken(accessFile)
               /\ saveOutcome = "open_fails" => accessFile = accessAtCall
               /\ saveOutcome = "write_fails" =>
                      accessFile = [exists |-> TRUE, data |-> <<>>]
        /\ result = "raised" =>
               /\ devicePosts = 3
               /\ lastPoll # "access_token"
               /\ saveOutcome = "none"
               /\ accessFile = accessAtCall

\* C7 witness: the third login run succeeded and the save could not open the
\* file.
C7_Witness ==
    /\ op = "get_access_token"
    /\ pc = "done"
    /\ result = "ok"
    /\ devicePosts = 3
    /\ saveOutcome = "open_fails"
    /\ accessFile = accessAtCall

\* C8: while the access-token file holds a non-empty token, no step of any
\* call changes the file or starts a device-authorization request.
C8_Step ==
    HoldsToken(accessFile) =>
        /\ accessFile' = accessFile
        /\ pc' \notin {"device_code", "poll", "save_access"}
        /\ devicePosts' # devicePosts + 1
C8_AccessTokenKept == [][C8_Step]_vars

\* C8 witness: the key exchange failed on all 3 attempts of a get_api_key()
\* call although the file holds a token.
C8_Witness ==
    /\ HoldsToken(accessFile)
    /\ op = "get_api_key"
    /\ pc = "done"
    /\ result = "raised"
    /\ keyGets = 3
    /\ devicePosts = 0

\* C9: _refresh_api_key() makes at most 3 GETs, returns the first response
\* with a token field at once, sleeps 1 second between consecutive attempts
\* only (never after the third), and raises exactly when none of 3 attempts
\* had a token field.
C9_RefreshLoop ==
    /\ keyGets <= 3
    /\ keySleeps <= 2
    /\ keySlept = keySleeps
    /\ pc = "key_exchange" =>
           /\ ~keyInfo.hasToken
           /\ keyGets = keyAttempt
           /\ keySleeps = (IF keyAttempt < 2 THEN keyAttempt ELSE 2)
    /\ keyInfo.hasToken =>
           /\ pc # "key_exchange"
           /\ keyGets = keyAttempt + 1
           /\ keySleeps = keyAttempt
    /\ (op = "refresh_api_key" /\ pc = "done") =>
           /\ result = "ok" <=> keyInfo.hasToken
           /\ result = "raised" <=> ~keyInfo.hasToken
           /\ (result = "raised" /\ accessToken # <<>>) => keyGets = 3 /\ keySleeps = 2
           /\ (result = "raised" /\ accessToken = <<>>) => keyGets = 0

\* C9 witness: three attempts without a token field, two sleeps, the raise.
C9_Witness ==
    /\ op = "refresh_api_key"
    /\ pc = "done"
    /\ result = "raised"
    /\ keyGets = 3
    /\ keySleeps = 2

\* C10 as stated: of two consecutive get_api_key() calls before the expiry of
\* the key the first one fetched, the first made exactly one network call and
\* the second none.
C10_ExactlyOneCall ==
    (op = "get_api_key" /\ pc = "done" /\ prevKeyCall \notin {"none", "cached"}) =>
        /\ prevKeyCall = "one_call"
        /\ devicePosts + pollPosts + keyGets = 0

\* C10 amended: the second call is served from the persisted record and makes
\* no network call; the first, when it fetched the key, made at least one.
C10_SecondCallFromCache ==
    (op = "get_api_key" /\ prevKeyCall # "none") =>
        /\ pc \in {"gak_read", "done"}
        /\ devicePosts + pollPosts + keyGets = 0
        /\ prevKeyCall \in {"cached", "one_call", "more_calls"}
        /\ pc = "done" =>
               /\ result = "ok"
               /\ servedFromCache
               /\ apiKey = apiKeyAtCall.token
               /\ apiKeyFile = apiKeyAtCall

\* C10 witness: the first call needed more than one network call, the second
\* returned from the file.
C10_Witness ==
    /\ op = "get_api_key"
    /\ pc = "done"
    /\ prevKeyCall = "more_calls"
    /\ servedFromCache
    /\ result = "ok"

\* C11 as stated: get_api_key() called right after the key save of a key k
\* returns k.token, whatever k is.
C11_SavedKeyReturned ==
    (op = "get_api_key" /\ afterSave /\ pc = "done") =>
        /\ result = "ok"
        /\ apiKey = apiKeyAtCall.token

\* C11 amended: it returns k.token, from the file, when k declares an
\* expires_at later than the time of the call; otherwise it does not serve k
\* but starts a refresh.
C11_UnexpiredSavedKeyReturned ==
    (op = "get_api_key" /\ afterSave) =>
        /\ apiKeyAtCall.kind = "json"
        /\ (apiKeyAtCall.hasExp /\ apiKeyAtCall.exp > now) =>
               /\ pc \in {"gak_read", "done"}
               /\ pc = "done" =>
                      /\ result = "ok"
                      /\ servedFromCache
                      /\ apiKey = apiKeyAtCall.token
                      /\ apiKeyFile = apiKeyAtCall
        /\ ~(apiKeyAtCall.hasExp /\ apiKeyAtCall.exp > now) =>
               /\ ~servedFromCache
               /\ pc \in {"gak_read", "gat_read", "key_exchange", "save_key", "done"}

\* C11 witness: the call after the save of an unexpired key returned that
\* key's token from the file.
C11_Witness ==
    /\ op = "get_api_key"
    /\ afterSave
    /\ pc = "done"
    /\ servedFromCache
    /\ apiKey \in KeyTokens
    /\ apiKey = apiKeyAtCall.token

\* C12: get_api_key() serves the record of the file without a refresh
\* exactly when the record has an expires_at strictly greater than the
\* current time; with expires_at earlier than or equal to the time, or with
\* none, it goes on to the refresh.
C12_ServedIffUnexpired ==
    (op = "get_api_key" /\ pc # "gak_read") =>
        /\ servedFromCache <=>
               /\ apiKeyAtCall.kind = "json"
               /\ apiKeyAtCall.hasExp
               /\ apiKeyAtCall.exp > now
        /\ servedFromCache =>
               /\ pc = "done"
               /\ result = "ok"
               /\ apiKey = apiKeyAtCall.token
               /\ apiKeyFile = apiKeyAtCall
               /\ devicePosts + pollPosts + keyGets = 0
               /\ ~loggedIn
        /\ (~servedFromCache /\ pc = "done" /\ result = "ok") => keyGets > 0

\* C12 witness: a record whose expires_at equals the current time is not
\* served, the refresh has begun.
C12_Witness ==
    /\ op = "get_api_key"
    /\ pc = "gat_read"
    /\ apiKeyAtCall.kind = "json"
    /\ apiKeyAtCall.hasExp
    /\ apiKeyAtCall.exp = now
    /\ now > 0
    /\ ~servedFromCache

\* C13: when the diagnostic call returned a non-empty body, execute() has
\* ended with exactly one fragment, the whole body, and the streaming call
\* was never opened.
C13_DiagnosticBodyShortCircuits ==
    (op = "execute" /\ diagText # "") =>
        /\ diagStatus \in {"ok", "error"}
        /\ pc = "done"
        /\ result = "ok"
        /\ fragments = <<diagText>>
        /\ streamStatus = "none"
        /\ streamMessages = <<>>
        /\ linesRead = 0

\* C13 witness: a diagnostic body was yielded alone and no stream was opened.
C13_Witness ==
    /\ ExecuteEnded
    /\ diagStatus = "ok"
    /\ diagText = DiagBody
    /\ fragments = <<DiagBody>>
    /\ streamStatus = "none"

\* The streaming call has been opened, or is about to be.
StreamAttempted == streamStatus # "none" \/ pc \in {"stream_open", "stream_read"}

\* C14 as stated: the streaming call is opened only in a run whose diagnostic
\* call completed and returned an empty body.
C14_StreamOnlyAfterEmptyBody ==
    StreamAttempted => (diagStatus \in {"ok", "error"} /\ diagText = "")

\* C14 amended: the streaming call is opened only after the diagnostic call,
\* and only when that call returned an empty body or failed with an
\* exception; in both of these cases it is opened.
C14_StreamAfterDiagnostic ==
    /\ StreamAttempted =>
           /\ diagStatus # "none"
           /\ diagText = ""
    /\ pc = "stream_open" => diagMessages # <<>>
    /\ (op = "execute" /\ diagStatus # "none" /\ diagText = "") => StreamAttempted
    /\ (op = "execute" /\ pc = "done" /\ diagStatus # "none" /\ diagText = "") =>
           streamStatus # "none"

\* C14 witness: the stream was opened after the diagnostic call failed in
\* transport.
C14_Witness ==
    /\ op = "execute"
    /\ diagStatus = "transport_error"
    /\ streamStatus = "ok"
    /\ pc = "stream_read"

\* C18: for a conversation with n prior responses the messages are 2n+2:
\* the system preamble, each prior prompt followed by its text in order, the
\* new prompt last; one system message; the diagnostic and the streaming
\* call send this same list.
C18_MessageList ==
    /\ pc \in {"diagnostic", "stream_open"} => messages # <<>>
    /\ pc = "diagnostic" => (diagMessages = <<>> /\ streamMessages = <<>>)
    /\ pc = "stream_open" => (diagMessages # <<>> /\ streamMessages = <<>>)
    /\ diagStatus # "none" => (diagMessages # <<>> \/ messages = <<>>)
    /\ messages # <<>> =>
           LET rs == conversation.responses
               n == Len(rs)
           IN  /\ op = "execute"
               /\ Len(messages) = 2 * n + 2
               /\ messages[1] = [role |-> "system", content |-> SystemPreamble]
               /\ \A i \in 1..n :
                      /\ messages[2 * i] = [role |-> "user", content |-> rs[i].prompt]
                      /\ messages[2 * i + 1] = [role |-> "assistant", content |-> rs[i].text]
               /\ messages[2 * n + 2] = [role |-> "user", content |-> NewPrompt]
               /\ Cardinality({i \in 1..Len(messages) : messages[i].role = "system"}) = 1
               /\ diagMessages # <<>> => diagMessages = messages
               /\ streamMessages # <<>> =>
                      (streamMessages = messages /\ diagMessages = messages)

\* C18 witness: two prior responses, six messages, sent by both calls.
C18_Witness ==
    /\ Len(conversation.responses) = 2
    /\ Len(messages) = 6
    /\ diagMessages = messages
    /\ streamMessages = messages
    /\ streamStatus = "ok"

\* C19: a get_api_key() call that fails because no access token could be
\* obtained or because all 3 key-exchange attempts failed leaves the API-key
\* file as it was at the call; the file is written only after a response
\* with a token field was received.
C19_FailedCallLeavesKeyFile ==
    op = "get_api_key" =>
        /\ apiKeyFile # apiKeyAtCall => (keyInfo.hasToken /\ pc = "done")
        /\ pc = "save_key" => keyInfo.hasToken
        /\ (pc = "done" /\ result = "raised" /\ ~keyInfo.hasToken) =>
               /\ apiKeyFile = apiKeyAtCall
               /\ devicePosts = 3 \/ keyGets = 3

\* C19 witness: an expired record is still in the file after a call whose 3
\* key-exchange attempts failed.
C19_Witness ==
    /\ op = "get_api_key"
    /\ pc = "done"
    /\ result = "raised"
    /\ keyGets = 3
    /\ ~keyInfo.hasToken
    /\ apiKeyAtCall.kind = "json"
    /\ apiKeyAtCall.token \in KeyTokens
    /\ apiKeyAtCall.hasExp
    /\ apiKeyFile = apiKeyAtCall

\* The requests of a get_api_key() call: at most 3 device-code POSTs, 12
\* token polls a run and 36 in all, each with the device code of its run, at
\* most 3 key-exchange GETs, none of them before an access token is held;
\* after the login has returned no login request follows.
C20_Counts ==
    op = "get_api_key" =>
        /\ devicePosts <= 3
        /\ runPosts <= 12
        /\ pollPosts <= 36
        /\ pollPosts <= 12 * devicePosts
        /\ keyGets <= 3
        /\ pc = "poll" => (deviceCode = devicePosts /\ deviceCode > 0)
        /\ runPosts > 0 => (polledCode = deviceCode /\ polledCode > 0)
        /\ runPosts = 0 => polledCode = 0
        /\ (keyGets > 0 \/ pc \in {"key_exchange", "save_key"}) => accessToken # <<>>
        /\ loggedIn =>
               /\ devicePosts = 0
               /\ pollPosts = 0
               /\ pc \in {"key_exchange", "save_key", "done"}
        /\ keyGets > 0 => pc \in {"key_exchange", "save_key", "done"}

\* Every get_api_key() call ends.
C20_Terminates == (op = "get_api_key" /\ pc # "done") ~> (pc = "done")

\* C20: every get_api_key() call terminates, within these numbers of
\* requests.
C20_BoundedCall == []C20_Counts /\ C20_Terminates

\* C20 witness: a call that failed after 3 device-code POSTs and 36 polls.
C20_Witness ==
    /\ op = "get_api_key"
    /\ pc = "done"
    /\ result = "raised"
    /\ devicePosts = 3
    /\ pollPosts = 36
    /\ keyGets = 0

\* ------------------------------------------------- claims on DecodeSpec
\* The lines read so far, and the kinds of line the claims speak of.
LinesRead == SubSeq(response, 1, linesRead)
IsDone(l) == l.prefix /\ l.text = "[DONE]"
IsRaw(l) ==
    \/ ~l.prefix /\ l.text # ""
    \/ l.prefix /\ l.text # "[DONE]" /\ l.parse = "error"
HasContent(l) ==
    /\ l.prefix
    /\ l.parse = "object"
    /\ l.choices = "one"
    /\ l.delta = "object"
    /\ l.content # ""
\* A payload that parses to something other than an object, or whose first
\* choice has a null delta.
IsOdd(l) ==
    /\ l.prefix
    /\ \/ l.parse = "number"
       \/ l.parse = "object" /\ l.choices = "one" /\ l.delta = "null"

\* What the decoder is to yield for the lines ls: the content of each payload
\* that has one and the text of each raw line, in order, up to the first
\* [DONE]; nothing for any other line.
RECURSIVE Yielded(_)
Yielded(ls) ==
    IF ls = <<>> THEN <<>>
    ELSE LET l == Head(ls) IN
         IF IsDone(l) THEN <<>>
         ELSE IF HasContent(l) THEN <<l.content>> \o Yielded(Tail(ls))
         ELSE IF IsRaw(l) THEN <<l.text>> \o Yielded(Tail(ls))
         ELSE Yielded(Tail(ls))

C16_Step ==
    (pc = "stream_read" /\ linesRead < Len(response) /\ IsRaw(response[linesRead + 1])) =>
        /\ fragments' = Append(fragments, response[linesRead + 1].text)
        /\ fragments'[Len(fragments')] \notin ErrorFragments
        /\ pc' = "stream_read"
        /\ result' = "none"
        /\ linesRead' = linesRead + 1
C16_RawLinesYielded == [][C16_Step]_vars

\* C16 witness: "data: not-json" then a line without prefix were yielded as
\* they are, and the third line is still to be read.
C16_Witness ==
    /\ pc = "stream_read"
    /\ Len(response) = 3
    /\ linesRead = 2
    /\ fragments = <<"not-json", "plain text">>

\* --------------------------------------------------- claims on RaceSpec
CompleteRecords == {Encode(k) : k \in RaceKeys}
WholeOrEmpty(bytes) == bytes = <<>> \/ bytes \in CompleteRecords

\* C17: whatever the interleaving of the processes, the bytes of the file and
\* the bytes any read saw are empty or one complete record.
C17_NoMixedRecord ==
    /\ WholeOrEmpty(disk.data)
    /\ \A p \in Procs : WholeOrEmpty(procs[p].seen)

====
